---- MODULE Spec2Model ----
(***************************************************************************)
(* The audio pipeline of the interview companion: one orchestrator         *)
(* component of the renderer (AudioRecorder, Header or QueueCommands)      *)
(* with its capture and processAudio state, and the two main-process       *)
(* handlers it calls (transcribe-audio with convertWebMToWAV, and          *)
(* generate-behavioral-answer), with the temporary files they create.      *)
(***************************************************************************)
EXTENDS Integers, Sequences, FiniteSets, TLC

\* Bounds of the model.
MaxStarts == 2      \* startRecording invocations in one behaviour
MaxRuns == 2        \* processAudio invocations in one behaviour
MaxRequests == 3    \* user requests (start, generate, settings) in one behaviour
MaxChunks == 2      \* non-empty chunks a recorder delivers (SpecCapture)
MaxClock == 1       \* largest value of Date.now()
MaxIdleStops == 1   \* stopRecording invocations made while not recording (SpecStop)
MaxLiveRequests == 2 \* user requests in one behaviour of SpecLive

Components == {"AudioRecorder", "Header", "QueueCommands"}

----------------------------------------------------------------------------
\* Strings the code inspects are sequences of characters.

startsWith(s, p) == Len(s) >= Len(p) /\ SubSeq(s, 1, Len(p)) = p

endsWith(s, p) == Len(s) >= Len(p) /\ SubSeq(s, Len(s) - Len(p) + 1, Len(s)) = p

includes(s, p) == \E i \in 1..(Len(s) - Len(p) + 1) : SubSeq(s, i, i + Len(p) - 1) = p

IsSpace(ch) == ch = " "

RECURSIVE trimStart(_)
trimStart(s) == IF s # <<>> /\ IsSpace(Head(s)) THEN trimStart(Tail(s)) ELSE s

RECURSIVE trimEnd(_)
trimEnd(s) == IF s # <<>> /\ IsSpace(s[Len(s)]) THEN trimEnd(SubSeq(s, 1, Len(s) - 1)) ELSE s

trim(s) == trimEnd(trimStart(s))

\* undefined: what reading an absent property gives
Undefined == <<"undefined">>

\* JavaScript truthiness of a string or undefined
Truthy(s) == s # <<>> /\ s # Undefined

KeyPrefixA == <<"s", "k", "-", "o", "r", "-">>
NoKey == <<>>
KeyA == KeyPrefixA \o <<"1">>
KeyB == <<"s", "k", "-", "1">>
Keys == {NoKey, KeyA, KeyB}

DotWebm == <<".", "w", "e", "b", "m">>
DotMp3 == <<".", "m", "p", "3">>
DotWav == <<".", "w", "a", "v">>
Stem == <<"r", "e", "c", "o", "r", "d", "i", "n", "g">>

ExtChars(ext) ==
  CASE ext = "webm" -> DotWebm
    [] ext = "mp3" -> DotMp3
    [] OTHER -> DotWav

\* `recording.${audioFormat}`
RecordingName(ext) == Stem \o ExtChars(ext)

----------------------------------------------------------------------------
\* Notices (showToast(title, description, variant)).

Notice(t, d, v) == [title |-> t, description |-> d, variant |-> v]

StartedNotice == Notice("Recording", "Audio recording started", "success")
StoppedNotice == Notice("Recording", "Audio recording stopped", "neutral")
StartFailedNotice ==
  Notice("Error", "Failed to start recording. Please check microphone permissions.", "error")
FallbackNotice ==
  Notice("Info", "Recording in WebM format. Will be converted to WAV for OpenRouter compatibility.", "neutral")
ProcessingNotice ==
  Notice("Processing", "Transcribing audio and generating answer...", "neutral")
SuccessNotice == Notice("Success", "Audio processed and answer generated!", "success")
NoSpeechNotice == Notice("Warning", "No speech detected in the recording", "error")
ProcessFailedNotice == Notice("Error", "Failed to process audio. Please try again.", "error")
AnsweredNotice == Notice("Success", "Behavioral question answered successfully!", "success")

----------------------------------------------------------------------------
VARIABLES
  comp,               \* which orchestrator component this is
  supported,          \* the mime types MediaRecorder.isTypeSupported accepts on this host
  isRecording, isProcessing, audioBlob, audioFormat, transcription, answer,
  mediaRecorderRef,   \* 0 (null) or the startRecording call whose recorder it holds
  audioChunksRef,     \* the chunks pushed since the last reset
  calls,              \* startRecording invocations, with their stream and recorder
  stopNotices,        \* notices emitted by stopRecording
  idleStops,          \* stopRecording invocations made while not recording
  runs,               \* processAudio invocations
  shown,              \* SubscribedApp: what handleTranscriptionComplete stored
  apiKey,             \* the configured API key
  configUpdates,      \* how many times the configuration was updated
  files,              \* the temporary files that exist
  now                 \* Date.now()

vars == <<comp, supported, isRecording, isProcessing, audioBlob, audioFormat, transcription, answer,
          mediaRecorderRef, audioChunksRef, calls, stopNotices, idleStops, runs, shown,
          apiKey, configUpdates, files, now>>

captureVars == <<isRecording, audioBlob, audioFormat, mediaRecorderRef, audioChunksRef,
                 calls, stopNotices, idleStops>>
displayVars == <<transcription, answer, shown>>
mainVars == <<apiKey, configUpdates, files, now>>

\* useState<Blob | null>(null): cap = 0 is null, otherwise the capture that made it
NullBlob == [cap |-> 0, data |-> <<>>, type |-> ""]

----------------------------------------------------------------------------
\* Capture: startRecording, the recorder's events, stopRecording.

PreferredTypes == <<"audio/mp3", "audio/wav", "audio/wave", "audio/x-wav">>
FallbackType == "audio/webm;codecs=opus"
MimeTypes == {PreferredTypes[i] : i \in 1..Len(PreferredTypes)} \cup {FallbackType}

ExtensionOf(mime) ==
  CASE mime = "audio/mp3" -> "mp3"
    [] mime = FallbackType -> "webm"
    [] OTHER -> "wav"

\* The hosts considered: one for each outcome of a component's format selection
Hosts == {{}, {FallbackType}, {"audio/wave", "audio/x-wav", FallbackType}, MimeTypes}
HostsOf(c) == IF c = "AudioRecorder" THEN Hosts ELSE {{}, {FallbackType}}

\* The if / else-if chain over MediaRecorder.isTypeSupported
SelectMimeType(host) ==
  IF "audio/mp3" \in host THEN "audio/mp3"
  ELSE IF "audio/wav" \in host THEN "audio/wav"
  ELSE IF "audio/wave" \in host THEN "audio/wave"
  ELSE IF "audio/x-wav" \in host THEN "audio/x-wav"
  ELSE FallbackType

\* The mime type a component records with
ChosenMimeType(c, host) ==
  IF c = "AudioRecorder" THEN SelectMimeType(host) ELSE FallbackType

\* The type given to the Blob built in onstop
BlobType(c, mime) == IF c = "AudioRecorder" THEN mime ELSE "audio/webm"

\* The notices of the format selection
SelectionNotices(c, host) ==
  IF c = "AudioRecorder" /\ host \cap {PreferredTypes[i] : i \in 1..Len(PreferredTypes)} = {}
  THEN <<FallbackNotice>> ELSE <<>>

\* The user requests made so far
Requests == Len(calls) + Len(runs) + configUpdates

\* The controls the component renders
StartEnabled == ~isRecording /\ (comp = "QueueCommands" \/ ~isProcessing)
StopEnabled == isRecording
GenerateEnabled ==
  /\ audioBlob.cap # 0
  /\ ~isRecording
  /\ (comp = "QueueCommands" \/ ~isProcessing)

NewCall ==
  [pc |-> "getUserMedia", busy |-> (isRecording \/ isProcessing), held |-> 0,
   stream |-> "none", recorder |-> "none", mimeType |-> "", delivered |-> <<>>,
   notices |-> <<>>]

StartCatchNoticesNone == <<>>

\* The notices of the catch block of startRecording
StartCatchNotices == <<StartFailedNotice>>

\* A click on the start control: startRecording runs up to its await.
startRecording ==
  /\ StartEnabled
  /\ Len(calls) < MaxStarts
  /\ Requests < MaxRequests
  /\ calls' = Append(calls, NewCall)
  /\ UNCHANGED <<comp, supported, isRecording, isProcessing, audioBlob, audioFormat, mediaRecorderRef,
                 audioChunksRef, stopNotices, runs>>
  /\ UNCHANGED idleStops
  /\ UNCHANGED displayVars
  /\ UNCHANGED mainVars

\* getUserMedia rejects: the catch block.
GetUserMediaRejected(c) ==
  /\ calls[c].pc = "getUserMedia"
  /\ calls' = [calls EXCEPT ![c].pc = "done", ![c].notices = @ \o StartCatchNotices]
  /\ UNCHANGED <<comp, supported, isRecording, isProcessing, audioBlob, audioFormat, mediaRecorderRef,
                 audioChunksRef, stopNotices, runs>>
  /\ UNCHANGED idleStops
  /\ UNCHANGED displayVars
  /\ UNCHANGED mainVars

\* getUserMedia resolves with a stream, and `new MediaRecorder` throws
\* (the host does not support the mime type): the catch block.
RecorderConstructionFails(c) ==
  /\ calls[c].pc = "getUserMedia"
  /\ ChosenMimeType(comp, supported) \notin supported
  /\ calls' = [calls EXCEPT ![c].pc = "done", ![c].stream = "live",
               ![c].notices = @ \o SelectionNotices(comp, supported)
                                \o StartCatchNotices]
  /\ UNCHANGED <<comp, supported, isRecording, isProcessing, audioBlob, audioFormat, mediaRecorderRef,
                 audioChunksRef, stopNotices, runs>>
  /\ UNCHANGED idleStops
  /\ UNCHANGED displayVars
  /\ UNCHANGED mainVars

\* The recorder is constructed and installed, and mediaRecorder.start throws:
\* the catch block.
RecorderStartFails(c) ==
  /\ calls[c].pc = "getUserMedia"
  /\ LET mime == ChosenMimeType(comp, supported) IN
       /\ mime \in supported
       /\ calls' = [calls EXCEPT ![c].pc = "done", ![c].stream = "live",
                      ![c].recorder = "created", ![c].mimeType = mime,
                      ![c].notices = @ \o SelectionNotices(comp, supported)
                                       \o StartCatchNotices]
  /\ mediaRecorderRef' = c
  /\ audioChunksRef' = <<>>
  /\ UNCHANGED <<comp, supported, isRecording, isProcessing, audioBlob, audioFormat, stopNotices, runs>>
  /\ UNCHANGED idleStops
  /\ UNCHANGED displayVars
  /\ UNCHANGED mainVars

\* The rest of startRecording when nothing throws.
RecordingStarts(c) ==
  /\ calls[c].pc = "getUserMedia"
  /\ LET mime == ChosenMimeType(comp, supported) IN
       /\ mime \in supported
       /\ calls' = [calls EXCEPT ![c].pc = "done", ![c].stream = "live",
                      ![c].recorder = "recording", ![c].mimeType = mime,
                      ![c].held = audioBlob.cap,
                      ![c].notices = @ \o SelectionNotices(comp, supported)
                                       \o <<StartedNotice>>]
  /\ mediaRecorderRef' = c
  /\ audioChunksRef' = <<>>
  /\ isRecording' = TRUE
  /\ UNCHANGED <<comp, supported, isProcessing, audioBlob, audioFormat, stopNotices, runs>>
  /\ UNCHANGED idleStops
  /\ UNCHANGED displayVars
  /\ UNCHANGED mainVars

\* mediaRecorder.ondataavailable: every second while recording, and once more
\* after stop() before the stop event.
DataAvailable(c) ==
  /\ calls[c].recorder \in {"recording", "stopping"}
  /\ Len(calls[c].delivered) < MaxChunks
  /\ \E size \in {0, 1} :
       LET chunk == [cap |-> c, n |-> Len(calls[c].delivered) + 1] IN
       IF size > 0
       THEN /\ audioChunksRef' = Append(audioChunksRef, chunk)
            /\ calls' = [calls EXCEPT ![c].delivered = Append(@, chunk)]
       ELSE UNCHANGED <<audioChunksRef, calls>>
  /\ UNCHANGED <<comp, supported, isRecording, isProcessing, audioBlob, audioFormat, mediaRecorderRef,
                 stopNotices, runs>>
  /\ UNCHANGED idleStops
  /\ UNCHANGED displayVars
  /\ UNCHANGED mainVars

StopAcceptedWithoutFlag(ref, recording) == ref # 0

\* if (mediaRecorderRef.current && isRecording)
StopAccepted(ref, recording) == ref # 0 /\ recording

\* The body of stopRecording.  stop() on a recorder that is not recording is a
\* no-op in some hosts and throws InvalidStateError in others.
StopRecordingBody ==
  IF StopAccepted(mediaRecorderRef, isRecording)
  THEN \/ /\ calls[mediaRecorderRef].recorder = "recording"
          /\ calls' = [calls EXCEPT ![mediaRecorderRef].recorder = "stopping"]
          /\ isRecording' = FALSE
          /\ stopNotices' = Append(stopNotices, StoppedNotice)
       \/ /\ calls[mediaRecorderRef].recorder # "recording"
          /\ \E throws \in BOOLEAN :
               IF throws
               THEN UNCHANGED <<calls, isRecording, stopNotices>>
               ELSE /\ isRecording' = FALSE
                    /\ stopNotices' = Append(stopNotices, StoppedNotice)
                    /\ UNCHANGED calls
  ELSE UNCHANGED <<calls, isRecording, stopNotices>>

\* A click on the stop control.
stopRecording ==
  /\ StopEnabled
  /\ StopRecordingBody
  /\ UNCHANGED <<comp, supported, isProcessing, audioBlob, audioFormat, mediaRecorderRef,
                 audioChunksRef, idleStops, runs>>
  /\ UNCHANGED displayVars
  /\ UNCHANGED mainVars

\* stopRecording invoked while the component is not recording.
stopRecordingNotRecording ==
  /\ ~isRecording
  /\ idleStops < MaxIdleStops
  /\ idleStops' = idleStops + 1
  /\ StopRecordingBody
  /\ UNCHANGED <<comp, supported, isProcessing, audioBlob, audioFormat, mediaRecorderRef,
                 audioChunksRef, runs>>
  /\ UNCHANGED displayVars
  /\ UNCHANGED mainVars

\* mediaRecorder.onstop
OnStop(c) ==
  /\ calls[c].recorder = "stopping"
  /\ audioBlob' = [cap |-> c, data |-> audioChunksRef,
                   type |-> BlobType(comp, calls[c].mimeType)]
  /\ audioFormat' = IF comp = "AudioRecorder" THEN ExtensionOf(calls[c].mimeType)
                    ELSE audioFormat
  /\ calls' = [calls EXCEPT ![c].recorder = "stopped", ![c].stream = "stopped",
                              ![c].delivered = <<>>]
  /\ UNCHANGED <<comp, supported, isRecording, isProcessing, mediaRecorderRef, audioChunksRef,
                 stopNotices, runs>>
  /\ UNCHANGED idleStops
  /\ UNCHANGED displayVars
  /\ UNCHANGED mainVars

----------------------------------------------------------------------------
\* The main process: configuration, temporary files, the two handlers.

\* configHelper.hasApiKey()
hasApiKey(key) == Truthy(key)

IsOpenRouterAnySk(key) == startsWith(key, <<"s", "k", "-">>)

\* apiKey.startsWith('sk-or-')
IsOpenRouter(key) == startsWith(key, KeyPrefixA)

isWebMNever(filename) == FALSE
isWebMAlways(filename) == TRUE

\* filename.toLowerCase().includes('webm'); the names the renderer builds are lower case
isWebM(filename) == includes(filename, <<"w", "e", "b", "m">>)

isMp3(filename) == endsWith(filename, DotMp3)

\* const audioFormat = isMp3 ? 'mp3' : 'wav'
FormatTag(filename) == IF isMp3(filename) THEN "mp3" ELSE "wav"

FinalFormatOfName(filename, converted) ==
  IF isMp3(filename) THEN "mp3" ELSE IF isWebM(filename) THEN "webm" ELSE "wav"

\* let finalFormat = audioFormat; after the conversion, finalFormat = 'wav'
FinalFormat(filename, converted) == IF converted THEN "wav" ELSE FormatTag(filename)

\* The bytes audioBlob.arrayBuffer() resolves with, as the handler receives them
BytesOf(blob) == [cap |-> blob.cap, data |-> blob.data, transcoded |-> FALSE]
NoBytes == BytesOf(NullBlob)

ToWavSkipped(buffer) == buffer

\* The buffer convertWebMToWAV resolves with: the WAV file FFmpeg wrote
ToWav(buffer) == [buffer EXCEPT !.transcoded = TRUE]

\* processedAudioBuffer.toString('base64'), and what the provider decodes
ToBase64(buffer) == <<"base64", buffer>>
FromBase64(str) == str[2]

\* fs.createReadStream(tempFilePath): the bytes written to the file
ReadStream(buffer) == <<"stream", buffer>>
NoAudio == <<"none", NoBytes>>

\* The bytes a request carries
CarriedBytes(audio) == IF audio[1] = "base64" THEN FromBase64(audio) ELSE audio[2]

\* path.join(tempDir, `input_${Date.now()}.webm`) and `output_${Date.now()}.wav`
InputPath(t) == <<"input", t, <<>>>>
OutputPath(t) == <<"output", t, <<>>>>
\* path.join(tempDir, `temp_audio_${Date.now()}_${filename}`)
TempAudioPath(t, filename) == <<"temp_audio", t, filename>>
NoPath == <<"none", 0, <<>>>>

\* try { fs.unlinkSync(p) } catch {}
Unlink(fs, paths) == fs \ paths

\* What the provider may answer with: nothing, blank, or a question
Texts == {<<>>, <<" ">>, <<"q", " ">>}
Contents == {<<>>, <<"a">>}
FallbackAnswer == <<"I apologize, but I couldn't generate an answer for this question.">>

\* What a chat completion resolves with: no choice, a choice without content,
\* or a choice with one of the contents
Completions(contents) ==
  {[choices |-> <<>>]}
    \cup {[choices |-> <<[message |-> [content |-> c]]>>] : c \in contents \cup {Undefined}}

\* completion.choices[0]?.message?.content
FirstContent(completion) ==
  IF completion.choices = <<>> THEN Undefined ELSE completion.choices[1].message.content

\* What openai.audio.transcriptions.create resolves with
Transcriptions(texts) == {[text |-> t] : t \in texts}

TranscribedTextRaw(content) == content

\* completion.choices[0]?.message?.content || ""
TranscribedText(content) == IF Truthy(content) THEN content ELSE <<>>

AnswerOfRaw(content) == content

\* completion.choices[0]?.message?.content || "I apologize, ..."
AnswerOf(content) == IF Truthy(content) THEN content ELSE FallbackAnswer

\* Date.now(): the clock is read, and has not gone back
ReadClock(t) == t \in now..MaxClock /\ now' = t

\* update-config with a new apiKey (handleLogout stores the empty key)
updateConfig ==
  /\ Requests < MaxRequests
  /\ \E k \in Keys : k # apiKey /\ apiKey' = k
  /\ configUpdates' = configUpdates + 1
  /\ UNCHANGED <<comp, supported, isProcessing, runs, files, now>>
  /\ UNCHANGED captureVars
  /\ UNCHANGED displayVars

----------------------------------------------------------------------------
\* processAudio and the stages it awaits.

\* The recordings that were held when a capture began, over the captures begun so far
HeldAtStarts ==
  {calls[c].held : c \in {d \in 1..Len(calls) :
      calls[d].recorder \in {"recording", "stopping", "stopped"}}} \ {0}

NewRun ==
  [pc |-> "arrayBuffer", blob |-> audioBlob,
   filename |-> RecordingName(IF comp = "AudioRecorder" THEN audioFormat ELSE "webm"),
   busy |-> isProcessing, heldBefore |-> HeldAtStarts,
   provider |-> "none", genProvider |-> "none",
   sent |-> [encoding |-> "", format |-> ""], audio |-> NoAudio,
   inputPath |-> NoPath, outputPath |-> NoPath, tempFilePath |-> NoPath,
   transcribed |-> FALSE, text |-> <<>>, answer |-> <<>>,
   outcome |-> "pending", failed |-> "none",
   completions |-> <<>>, notices |-> <<ProcessingNotice>>]

\* A click on the generate control: processAudio runs up to its first await.
processAudio ==
  /\ GenerateEnabled
  /\ Len(runs) < MaxRuns
  /\ Requests < MaxRequests
  /\ audioBlob.cap # 0
  /\ isProcessing' = TRUE
  /\ runs' = Append(runs, NewRun)
  /\ UNCHANGED <<comp, supported>>
  /\ UNCHANGED captureVars
  /\ UNCHANGED displayVars
  /\ UNCHANGED mainVars

CatchNoticesNone == <<>>

\* The notices of the catch block of processAudio
CatchNotices == <<ProcessFailedNotice>>

\* processAudio returns: its locals (and those of the handlers it awaited) are gone
Returned(r) ==
  [r EXCEPT !.pc = "done", !.blob = NullBlob, !.filename = <<>>, !.heldBefore = {},
            !.audio = NoAudio,
            !.inputPath = NoPath, !.outputPath = NoPath, !.tempFilePath = NoPath]

CaughtAndRetried(r, stage) == [r EXCEPT !.pc = "arrayBuffer"]

\* The catch block of processAudio, for a stage that raised
Caught(r, stage) ==
  Returned([r EXCEPT !.outcome = "Failed", !.failed = stage,
                     !.notices = @ \o CatchNotices])

FinallyMissing(processing) == processing

\* The finally block of processAudio: setIsProcessing(false)
Finally(processing) == FALSE

\* audioBlob.arrayBuffer() rejects.
ArrayBufferFails(i) ==
  /\ runs[i].pc = "arrayBuffer"
  /\ runs' = [runs EXCEPT ![i] = Caught(@, "arrayBuffer")]
  /\ isProcessing' = Finally(isProcessing)
  /\ UNCHANGED <<comp, supported>>
  /\ UNCHANGED captureVars
  /\ UNCHANGED displayVars
  /\ UNCHANGED mainVars

\* The encoding of a blob's bytes
EncodingOf(blob) == IF blob.type = "audio/webm" THEN "webm" ELSE ExtensionOf(blob.type)

\* arrayBuffer() resolves, transcribe-audio is invoked, finds no API key and
\* throws; processAudio catches.
TranscribeNoKey(i) ==
  /\ runs[i].pc = "arrayBuffer"
  /\ ~hasApiKey(apiKey)
  /\ runs' = [runs EXCEPT ![i] = Caught(@, "credential")]
  /\ isProcessing' = Finally(isProcessing)
  /\ UNCHANGED <<comp, supported>>
  /\ UNCHANGED captureVars
  /\ UNCHANGED displayVars
  /\ UNCHANGED mainVars

\* What convertWebMToWAV leaves on disk when writing the input file throws
\* (the setup catch block)
AfterSetupError(fs, inPath, outPath) == Unlink(fs, {inPath, outPath})

\* transcribe-audio, OpenRouter branch, WebM input: convertWebMToWAV writes the
\* input file and starts FFmpeg; or the write throws, the promise is rejected
\* and the handler throws.
TranscribeConvert(i) ==
  /\ runs[i].pc = "arrayBuffer"
  /\ hasApiKey(apiKey) /\ IsOpenRouter(apiKey) /\ isWebM(runs[i].filename)
  /\ \E t \in 0..MaxClock, written \in BOOLEAN :
       /\ ReadClock(t)
       /\ IF written
          THEN /\ files' = files \cup {InputPath(t)}
               /\ runs' = [runs EXCEPT ![i].pc = "ffmpeg", ![i].provider = "A",
                             ![i].inputPath = InputPath(t),
                             ![i].outputPath = OutputPath(t)]
               /\ UNCHANGED isProcessing
          ELSE /\ files' = AfterSetupError(files, InputPath(t), OutputPath(t))
               /\ runs' = [runs EXCEPT ![i] = Caught([@ EXCEPT !.provider = "A"],
                                                     "transcode")]
               /\ isProcessing' = Finally(isProcessing)
  /\ UNCHANGED <<comp, supported, apiKey, configUpdates>>
  /\ UNCHANGED captureVars
  /\ UNCHANGED displayVars

\* What the 'end' handler of convertWebMToWAV leaves on disk when the read
\* succeeds, and when readFileSync throws
AfterEndRead(fs, inPath, outPath) == Unlink(fs, {inPath, outPath})
AfterEndReadError(fs, inPath, outPath) == fs

\* What the 'error' handler leaves on disk
AfterFfmpegError(fs, inPath, outPath) == Unlink(fs, {inPath, outPath})

\* FFmpeg emits 'end': the output file is there, it is read, both files are
\* unlinked and the handler sends the WAV bytes to the provider.
FfmpegEnd(i) ==
  /\ runs[i].pc = "ffmpeg"
  /\ files' = AfterEndRead(files \cup {runs[i].outputPath},
                           runs[i].inputPath, runs[i].outputPath)
  /\ runs' = [runs EXCEPT ![i].pc = "transcription",
                ![i].inputPath = NoPath, ![i].outputPath = NoPath,
                ![i].sent = [encoding |-> "wav",
                             format |-> FinalFormat(runs[i].filename, TRUE)],
                ![i].audio = ToBase64(ToWav(BytesOf(runs[i].blob)))]
  /\ UNCHANGED <<comp, supported, isProcessing, apiKey, configUpdates, now>>
  /\ UNCHANGED captureVars
  /\ UNCHANGED displayVars

\* FFmpeg emits 'end' and readFileSync throws (the output file is missing or
\* unreadable): the promise is rejected, the handler throws, processAudio catches.
FfmpegEndReadFails(i) ==
  /\ runs[i].pc = "ffmpeg"
  /\ \E present \in BOOLEAN :
       files' = AfterEndReadError(IF present THEN files \cup {runs[i].outputPath}
                                  ELSE files \ {runs[i].outputPath},
                                  runs[i].inputPath, runs[i].outputPath)
  /\ runs' = [runs EXCEPT ![i] = Caught(@, "transcode")]
  /\ isProcessing' = Finally(isProcessing)
  /\ UNCHANGED <<comp, supported, apiKey, configUpdates, now>>
  /\ UNCHANGED captureVars
  /\ UNCHANGED displayVars

\* FFmpeg emits 'error': both paths are unlinked, the promise is rejected.
FfmpegError(i) ==
  /\ runs[i].pc = "ffmpeg"
  /\ files' = AfterFfmpegError(files, runs[i].inputPath, runs[i].outputPath)
  /\ runs' = [runs EXCEPT ![i] = Caught(@, "transcode")]
  /\ isProcessing' = Finally(isProcessing)
  /\ UNCHANGED <<comp, supported, apiKey, configUpdates, now>>
  /\ UNCHANGED captureVars
  /\ UNCHANGED displayVars

\* transcribe-audio, OpenRouter branch, input that is not WebM: the bytes are
\* sent as they are, tagged with the format read off the filename.
TranscribeDirect(i) ==
  /\ runs[i].pc = "arrayBuffer"
  /\ hasApiKey(apiKey) /\ IsOpenRouter(apiKey) /\ ~isWebM(runs[i].filename)
  /\ runs' = [runs EXCEPT ![i].pc = "transcription", ![i].provider = "A",
                ![i].sent = [encoding |-> EncodingOf(runs[i].blob),
                             format |-> FinalFormat(runs[i].filename, FALSE)],
                ![i].audio = ToBase64(BytesOf(runs[i].blob))]
  /\ UNCHANGED <<comp, supported, isProcessing>>
  /\ UNCHANGED captureVars
  /\ UNCHANGED displayVars
  /\ UNCHANGED mainVars

\* transcribe-audio, Whisper branch: the buffer is written to a temporary file
\* and the request is issued; or the write throws (outside the try/finally).
TranscribeWhisper(i) ==
  /\ runs[i].pc = "arrayBuffer"
  /\ hasApiKey(apiKey) /\ ~IsOpenRouter(apiKey)
  /\ \E t \in 0..MaxClock, written \in BOOLEAN :
       LET p == TempAudioPath(t, runs[i].filename) IN
       /\ ReadClock(t)
       /\ IF written
          THEN /\ files' = files \cup {p}
               /\ runs' = [runs EXCEPT ![i].pc = "transcription", ![i].provider = "B",
                             ![i].tempFilePath = p,
                             ![i].sent = [encoding |-> EncodingOf(runs[i].blob),
                                          format |-> "file"],
                             ![i].audio = ReadStream(BytesOf(runs[i].blob))]
               /\ UNCHANGED isProcessing
          ELSE /\ \E partial \in BOOLEAN :
                    files' = IF partial THEN files \cup {p} ELSE files
               /\ runs' = [runs EXCEPT ![i] = Caught([@ EXCEPT !.provider = "B"],
                                                     "transcription")]
               /\ isProcessing' = Finally(isProcessing)
  /\ UNCHANGED <<comp, supported, apiKey, configUpdates>>
  /\ UNCHANGED captureVars
  /\ UNCHANGED displayVars

WhisperCleanupOnSuccessOnly(fs, tempFilePath) == fs

\* The finally block of the Whisper branch: fs.unlinkSync(tempFilePath)
WhisperCleanup(fs, tempFilePath) == Unlink(fs, {tempFilePath})

\* The files after the transcription request of run r has settled
AfterTranscription(fs, r) ==
  IF r.provider = "B" THEN WhisperCleanup(fs, r.tempFilePath) ELSE fs

\* The transcription request fails: transcribe-audio rethrows, processAudio catches.
TranscriptionFails(i) ==
  /\ runs[i].pc = "transcription"
  /\ files' = AfterTranscription(files, runs[i])
  /\ runs' = [runs EXCEPT ![i] = Caught(@, "transcription")]
  /\ isProcessing' = Finally(isProcessing)
  /\ UNCHANGED <<comp, supported, apiKey, configUpdates, now>>
  /\ UNCHANGED captureVars
  /\ UNCHANGED displayVars

\* if (transcribedText.trim())
HasSpeech(text) == Truthy(trim(text))

\* The notices of the else branch (no speech)
NoSpeechNotices == <<NoSpeechNotice>>

\* generate-behavioral-answer up to its request: the key is checked, the
\* question is interpolated into the prompt as it is
GenerateStart(key, question) ==
  IF ~hasApiKey(key) THEN "API key is required" ELSE "chat.completions.create"

\* The provider generate-behavioral-answer uses with a key
ProviderOf(key) == IF IsOpenRouter(key) THEN "A" ELSE "B"

\* The transcription request returns and the handler returns { text }.
\* processAudio stores the text; with speech in it, it invokes
\* generate-behavioral-answer, which throws without an API key and otherwise
\* issues the chat completion; without speech it warns and ends.
TranscriptionReturns(i) ==
  /\ runs[i].pc = "transcription"
  /\ files' = AfterTranscription(files, runs[i])
  /\ \E response \in (IF runs[i].provider = "A" THEN Completions(Texts)
                        ELSE Transcriptions(Texts)) :
       LET text == IF runs[i].provider = "A" THEN TranscribedText(FirstContent(response))
                   ELSE response.text IN
       /\ transcription' = IF comp = "QueueCommands" THEN transcription ELSE text
       /\ IF HasSpeech(text)
          THEN IF GenerateStart(apiKey, text) = "chat.completions.create"
               THEN /\ runs' = [runs EXCEPT ![i].pc = "completion", ![i].text = text,
                                  ![i].transcribed = TRUE,
                                  ![i].genProvider = ProviderOf(apiKey)]
                    /\ UNCHANGED isProcessing
               ELSE /\ runs' = [runs EXCEPT ![i] = Caught([@ EXCEPT !.text = text,
                                                             !.transcribed = TRUE],
                                                          "credential")]
                    /\ isProcessing' = Finally(isProcessing)
          ELSE /\ runs' = [runs EXCEPT ![i] =
                             Returned([@ EXCEPT !.text = text, !.transcribed = TRUE,
                                                !.outcome = "Completed",
                                                !.notices = @ \o NoSpeechNotices])]
               /\ isProcessing' = Finally(isProcessing)
  /\ UNCHANGED <<comp, supported, answer, shown, apiKey, configUpdates, now>>
  /\ UNCHANGED captureVars

GenerationFailsForgettingKey(i) ==
  /\ runs[i].pc = "completion"
  /\ runs' = [runs EXCEPT ![i] = Caught(@, "generation")]
  /\ isProcessing' = Finally(isProcessing)
  /\ apiKey' = NoKey
  /\ UNCHANGED <<comp, supported, configUpdates, files, now>>
  /\ UNCHANGED captureVars
  /\ UNCHANGED displayVars

\* The chat completion fails: the handler rethrows, processAudio catches.
GenerationFails(i) ==
  /\ runs[i].pc = "completion"
  /\ runs' = [runs EXCEPT ![i] = Caught(@, "generation")]
  /\ isProcessing' = Finally(isProcessing)
  /\ UNCHANGED <<comp, supported>>
  /\ UNCHANGED captureVars
  /\ UNCHANGED displayVars
  /\ UNCHANGED mainVars

\* handleTranscriptionComplete of SubscribedApp
handleTranscriptionComplete(s, newTranscription, newAnswer) ==
  [transcription |-> newTranscription, answer |-> newAnswer,
   notices |-> Append(s.notices, AnsweredNotice)]

CompletionCallsSwapped(text, generatedAnswer) ==
  <<[transcription |-> generatedAnswer, answer |-> text]>>

\* The onTranscriptionComplete calls of processAudio once its answer is there
CompletionCalls(text, generatedAnswer) ==
  <<[transcription |-> text, answer |-> generatedAnswer]>>

RECURSIVE Deliver(_, _)
Deliver(s, made) ==
  IF made = <<>> THEN s
  ELSE Deliver(handleTranscriptionComplete(s, Head(made).transcription, Head(made).answer),
               Tail(made))

\* The chat completion returns: the handler returns { answer }, processAudio
\* stores it, reports it and ends.
GenerationReturns(i) ==
  /\ runs[i].pc = "completion"
  /\ \E completion \in Completions(Contents) :
       LET generatedAnswer == AnswerOf(FirstContent(completion))
           made == CompletionCalls(runs[i].text, generatedAnswer) IN
       /\ answer' = IF comp = "QueueCommands" THEN answer ELSE generatedAnswer
       /\ shown' = Deliver(shown, made)
       /\ runs' = [runs EXCEPT ![i] =
                     Returned([@ EXCEPT !.answer = generatedAnswer,
                                        !.outcome = "Completed",
                                        !.completions = @ \o made,
                                        !.notices = Append(@, SuccessNotice)])]
  /\ isProcessing' = Finally(isProcessing)
  /\ UNCHANGED <<comp, supported, transcription>>
  /\ UNCHANGED captureVars
  /\ UNCHANGED mainVars

----------------------------------------------------------------------------
Init ==
  /\ comp \in Components
  /\ supported \in HostsOf(comp)
  /\ isRecording = FALSE
  /\ isProcessing = FALSE
  /\ audioBlob = NullBlob
  /\ audioFormat = "webm"
  /\ transcription = <<>>
  /\ answer = <<>>
  /\ mediaRecorderRef = 0
  /\ audioChunksRef = <<>>
  /\ calls = <<>>
  /\ stopNotices = <<>>
  /\ idleStops = 0
  /\ runs = <<>>
  /\ shown = [transcription |-> <<>>, answer |-> <<>>, notices |-> <<>>]
  /\ apiKey \in Keys
  /\ configUpdates = 0
  /\ files = {}
  /\ now = 0

Next ==
  \/ startRecording
  \/ \E c \in 1..Len(calls) : GetUserMediaRejected(c)
  \/ \E c \in 1..Len(calls) : RecorderConstructionFails(c)
  \/ \E c \in 1..Len(calls) : RecorderStartFails(c)
  \/ \E c \in 1..Len(calls) : RecordingStarts(c)
  \/ stopRecording
  \/ \E c \in 1..Len(calls) : OnStop(c)
  \/ updateConfig
  \/ processAudio
  \/ \E i \in 1..Len(runs) : ArrayBufferFails(i)
  \/ \E i \in 1..Len(runs) : TranscribeNoKey(i)
  \/ \E i \in 1..Len(runs) : TranscribeConvert(i)
  \/ \E i \in 1..Len(runs) : FfmpegEnd(i)
  \/ \E i \in 1..Len(runs) : FfmpegEndReadFails(i)
  \/ \E i \in 1..Len(runs) : FfmpegError(i)
  \/ \E i \in 1..Len(runs) : TranscribeDirect(i)
  \/ \E i \in 1..Len(runs) : TranscribeWhisper(i)
  \/ \E i \in 1..Len(runs) : TranscriptionFails(i)
  \/ \E i \in 1..Len(runs) : TranscriptionReturns(i)
  \/ \E i \in 1..Len(runs) : GenerationFails(i)
  \/ \E i \in 1..Len(runs) : GenerationReturns(i)

\* The component with the handlers it calls.  What the recorders deliver is left
\* to SpecCapture: here every Recording is the empty concatenation, and a
\* Recording is told from another by the capture that made it.
Spec == Init /\ [][Next]_vars

\* The capture alone, with the chunks the recorders deliver.
NextCapture ==
  \/ startRecording
  \/ \E c \in 1..Len(calls) : GetUserMediaRejected(c)
  \/ \E c \in 1..Len(calls) : RecorderConstructionFails(c)
  \/ \E c \in 1..Len(calls) : RecorderStartFails(c)
  \/ \E c \in 1..Len(calls) : RecordingStarts(c)
  \/ \E c \in 1..Len(calls) : DataAvailable(c)
  \/ stopRecording
  \/ \E c \in 1..Len(calls) : OnStop(c)

SpecCapture == Init /\ [][NextCapture]_vars

\* The capture with stopRecording invoked at any time, also while not recording.
NextStop ==
  \/ startRecording
  \/ \E c \in 1..Len(calls) : GetUserMediaRejected(c)
  \/ \E c \in 1..Len(calls) : RecorderConstructionFails(c)
  \/ \E c \in 1..Len(calls) : RecorderStartFails(c)
  \/ \E c \in 1..Len(calls) : RecordingStarts(c)
  \/ stopRecording
  \/ stopRecordingNotRecording
  \/ \E c \in 1..Len(calls) : OnStop(c)

SpecStop == Init /\ [][NextStop]_vars

\* A step of run i: the call it is awaiting (the blob read, FFmpeg, the
\* transcription request, the generation request) returns or fails
StageSettles(i) ==
  \/ ArrayBufferFails(i)
  \/ TranscribeNoKey(i)
  \/ TranscribeConvert(i)
  \/ FfmpegEnd(i)
  \/ FfmpegEndReadFails(i)
  \/ FfmpegError(i)
  \/ TranscribeDirect(i)
  \/ TranscribeWhisper(i)
  \/ TranscriptionFails(i)
  \/ TranscriptionReturns(i)
  \/ GenerationFails(i)
  \/ GenerationReturns(i)

\* Every call a run awaits eventually returns or fails
CallsReturn == \A i \in 1..MaxRuns : WF_vars(i <= Len(runs) /\ StageSettles(i))

\* The user makes no more than MaxLiveRequests requests
NextLive ==
  \/ Requests < MaxLiveRequests /\ startRecording
  \/ \E c \in 1..Len(calls) : GetUserMediaRejected(c)
  \/ \E c \in 1..Len(calls) : RecorderConstructionFails(c)
  \/ \E c \in 1..Len(calls) : RecorderStartFails(c)
  \/ \E c \in 1..Len(calls) : RecordingStarts(c)
  \/ stopRecording
  \/ \E c \in 1..Len(calls) : OnStop(c)
  \/ Requests < MaxLiveRequests /\ updateConfig
  \/ Requests < MaxLiveRequests /\ processAudio
  \/ \E i \in 1..Len(runs) : StageSettles(i)

\* The component with the handlers, every awaited call eventually settling.
SpecLive == Init /\ [][NextLive]_vars /\ CallsReturn


----------------------------------------------------------------------------
\* The claims.

Runs == 1..Len(runs)
Calls == 1..Len(calls)

\* The convertWebMToWAV call of run i, started earlier, settles in this step
ConvertSettles(i) == runs[i].pc = "ffmpeg" /\ runs'[i].pc # "ffmpeg"

\* The convertWebMToWAV call of run i starts and is rejected in this step
ConvertSetupFails(i) ==
  runs[i].pc = "arrayBuffer" /\ runs'[i].pc = "done" /\ runs'[i].failed = "transcode"

\* C1: when the promise of convertWebMToWAV settles, on every exit path, neither
\* its input file nor its output file exists.
C1_ConvertRemovesTempFiles ==
  [][\A i \in Runs :
        /\ ConvertSettles(i) =>
              /\ runs[i].inputPath \notin files'
              /\ runs[i].outputPath \notin files'
        /\ ConvertSetupFails(i) => files' \subseteq files]_vars

\* The Whisper branch of run i, its temporary file written, returns or throws in this step
WhisperSettles(i) ==
  /\ runs[i].pc = "transcription" /\ runs[i].provider = "B"
  /\ runs'[i].pc # "transcription"

\* C2: in the Whisper branch the temporary audio file written for the call no
\* longer exists when the handler returns or throws.
C2_WhisperRemovesTempFile ==
  [][\A i \in Runs : WhisperSettles(i) => runs[i].tempFilePath \notin files']_vars

\* C2 witness: a Whisper request that failed and one that returned, each after
\* its temporary file was written.
C2_Witness ==
  \E i, j \in Runs :
    /\ runs[i].provider = "B" /\ runs[i].sent.format = "file"
    /\ runs[i].failed = "transcription"
    /\ runs[j].provider = "B" /\ runs[j].sent.format = "file" /\ runs[j].transcribed

InFlight == {i \in Runs : runs[i].pc # "done"}

\* C3: a generate request made while the session is Processing is ignored, so
\* at most one pipeline run is in flight at any time.
C3_OneRunInFlight ==
  /\ Cardinality(InFlight) <= 1
  /\ \A i \in Runs : ~runs[i].busy

\* C4: with no API key configured a generate request is rejected before
\* Processing (no run starts, the processing flag is not set), and the notice of a
\* credential failure is not the generic processing failure.
C4_NoCredentialRejected ==
  /\ [][~hasApiKey(apiKey) => (Len(runs') = Len(runs) /\ (isProcessing' => isProcessing))]_vars
  /\ [](\A i \in Runs : runs[i].failed = "credential" =>
           runs[i].notices[Len(runs[i].notices)] # ProcessFailedNotice)

\* Run i had speech transcribed and its answer generated
Succeeded(i) ==
  /\ runs[i].pc = "done" /\ runs[i].transcribed /\ HasSpeech(runs[i].text)
  /\ runs[i].failed = "none"

\* Run i ends in this step
Ends(i) == runs[i].pc # "done" /\ runs'[i].pc = "done"

\* C5: a run with speech transcribed and an answer generated calls
\* onTranscriptionComplete exactly once, with its text and its answer, and ends
\* Completed and not Processing; no run calls it more than once.
C5_CompletesOnce ==
  /\ [](\A i \in Runs :
          /\ Len(runs[i].completions) <= 1
          /\ Succeeded(i) =>
               /\ runs[i].completions =
                    <<[transcription |-> runs[i].text, answer |-> runs[i].answer]>>
               /\ runs[i].outcome = "Completed")
  /\ [][\A i \in Runs : (Ends(i) /\ runs'[i].completions # <<>>) =>
          /\ ~isProcessing'
          /\ shown'.transcription = runs'[i].text
          /\ shown'.answer = runs'[i].answer]_vars

\* C5 witness: a run that succeeded with a text that trimming would change.
C5_Witness ==
  \E i \in Runs : Succeeded(i) /\ trim(runs[i].text) # runs[i].text
                  /\ runs[i].completions # <<>>

\* C6: a run whose transcription is empty or blank ends Completed, with a
\* warning that is not an error notice, without generation and without
\* onTranscriptionComplete.
C6_EmptyTranscriptWarns ==
  \A i \in Runs :
    (runs[i].transcribed /\ ~HasSpeech(runs[i].text)) =>
      /\ runs[i].pc = "done" /\ runs[i].outcome = "Completed"
      /\ runs[i].genProvider = "none" /\ runs[i].completions = <<>>
      /\ Len(runs[i].notices) = 2
      /\ runs[i].notices[2].title = "Warning"
      /\ runs[i].notices[2].variant # "error"

ErrorNotices(i) == {k \in 1..Len(runs[i].notices) : runs[i].notices[k].variant = "error"}

\* C7: an error raised by a stage is caught in processAudio: the run ends, with
\* exactly one error notice, and the session is not Processing.
C7_ErrorsCaught ==
  /\ [](\A i \in Runs : runs[i].failed # "none" =>
          /\ runs[i].pc = "done" /\ runs[i].outcome = "Failed"
          /\ Cardinality(ErrorNotices(i)) = 1)
  /\ [][\A i \in Runs : (Ends(i) /\ runs'[i].failed # "none") => ~isProcessing']_vars

\* C7 witness: one run failed in transcoding and another in generation.
C7_Witness ==
  \E i, j \in Runs : runs[i].failed = "transcode" /\ runs[j].failed = "generation"

\* C8: a start request made while Recording or Processing acquires no stream,
\* creates no recorder and changes no state.
C8_BusyStartIgnored ==
  \A c \in Calls : calls[c].busy =>
    /\ calls[c].stream = "none" /\ calls[c].recorder = "none"
    /\ calls[c].notices = <<>> /\ mediaRecorderRef # c

\* C9: no run processes a Recording that was held when a capture before its
\* generate request began.
C9_StartDiscardsRecording ==
  \A i \in Runs : runs[i].blob.cap \notin runs[i].heldBefore

\* The capture of call c is over: set up and failed, or stopped
CaptureOver(c) ==
  /\ calls[c].pc = "done"
  /\ calls[c].recorder \in {"none", "created", "stopped"}

\* C10: a stream that startRecording acquired is released once the capture is
\* stopped or its setup has failed.
C10_StreamReleased ==
  \A c \in Calls : CaptureOver(c) => calls[c].stream # "live"

\* C11: stopRecording invoked while the component is not recording changes
\* neither the recording flag, the held Recording, the recorder nor the
\* processing flag, does not stop the recorder and emits no notice.
C11_IdleStopIsNoOp ==
  [][idleStops' # idleStops =>
       UNCHANGED <<isRecording, isProcessing, audioBlob, audioFormat, mediaRecorderRef,
                   audioChunksRef, calls, stopNotices>>]_vars

\* C11 witness: stopRecording was invoked while not recording, with a recorder
\* installed and a Recording held.
C11_Witness == idleStops > 0 /\ mediaRecorderRef # 0 /\ audioBlob.cap # 0

\* Run i enters stage pc in this step
Enters(i, pc) == runs[i].pc # pc /\ runs'[i].pc = pc

\* C12 as stated: whatever the provider, the audio submitted is wav or mp3.
C12_SubmittedIsWavOrMp3 ==
  \A i \in Runs : runs[i].sent.encoding # "" => runs[i].sent.encoding \in {"wav", "mp3"}

\* C12 amended: with an OpenRouter key a webm Recording is transcoded to wav
\* before it is submitted, and the audio submitted is wav or mp3; with another
\* key the Recording is submitted in the encoding it was recorded in.
C12_OpenRouterSubmitsWavOrMp3 ==
  /\ [](\A i \in Runs :
          /\ (runs[i].provider = "A" /\ runs[i].sent.encoding # "") =>
                runs[i].sent.encoding \in {"wav", "mp3"}
          /\ (runs[i].provider = "B" /\ runs[i].pc = "transcription") =>
                runs[i].sent.encoding = EncodingOf(runs[i].blob))
  /\ [][\A i \in Runs :
          (Enters(i, "transcription") /\ runs'[i].provider = "A"
             /\ EncodingOf(runs[i].blob) = "webm") =>
            /\ runs[i].pc = "ffmpeg"
            /\ CarriedBytes(runs'[i].audio).transcoded]_vars

\* C12 witness: a webm Recording about to be submitted as wav with an
\* OpenRouter key.
C12_Witness ==
  \E i \in Runs :
    /\ runs[i].pc = "transcription" /\ runs[i].provider = "A"
    /\ EncodingOf(runs[i].blob) = "webm" /\ runs[i].sent.encoding = "wav"

\* C13: the format tag of the audio part of an OpenRouter transcription
\* request is wav or mp3, never webm.
C13_FormatTagIsWavOrMp3 ==
  \A i \in Runs :
    (runs[i].provider = "A" /\ runs[i].sent.format # "") =>
      runs[i].sent.format \in {"wav", "mp3"}

\* C13 witness: a request for a file named recording.webm, tagged wav.
C13_Witness ==
  \E i \in Runs :
    /\ runs[i].pc = "transcription" /\ runs[i].provider = "A"
    /\ isWebM(runs[i].filename) /\ runs[i].sent.format = "wav"

\* The transcoding files that exist
TranscodingFiles(fs) == {p \in fs : p[1] \in {"input", "output"}}

\* C14: a wav or mp3 Recording is submitted with the bytes the handler
\* received, without transcoding and without a transcoding temporary file.
C14_WavAndMp3Untouched ==
  /\ [](\A i \in Runs :
          EncodingOf(runs[i].blob) \in {"wav", "mp3"} =>
            /\ runs[i].pc # "ffmpeg"
            /\ runs[i].pc = "transcription" =>
                  /\ CarriedBytes(runs[i].audio) = BytesOf(runs[i].blob)
                  /\ runs[i].sent.encoding = EncodingOf(runs[i].blob))
  /\ [][\A i \in Runs :
          (runs[i].pc = "arrayBuffer" /\ runs'[i].pc # "arrayBuffer"
             /\ EncodingOf(runs[i].blob) \in {"wav", "mp3"}) =>
            TranscodingFiles(files') = TranscodingFiles(files)]_vars

\* C14 witness: an mp3 or wav Recording about to be submitted with an
\* OpenRouter key.
C14_Witness ==
  \E i \in Runs :
    /\ runs[i].pc = "transcription" /\ runs[i].provider = "A"
    /\ EncodingOf(runs[i].blob) \in {"wav", "mp3"}

\* The first entry of the preference order the host supports, else the fallback
FirstSupported(host) ==
  LET ok == {k \in 1..Len(PreferredTypes) : PreferredTypes[k] \in host} IN
  IF ok = {} THEN FallbackType
  ELSE PreferredTypes[CHOOSE k \in ok : \A j \in ok : k <= j]

Announced(c) == \E k \in 1..Len(calls[c].notices) : calls[c].notices[k] = FallbackNotice

\* C15: startRecording records with the first supported entry of the preference
\* order, else with the fallback, and announces the fallback exactly when it
\* selected it.
C15_FirstSupportedSelected ==
  \A c \in Calls :
    calls[c].mimeType # "" =>
      /\ calls[c].mimeType = FirstSupported(supported)
      /\ Announced(c) <=> calls[c].mimeType = FallbackType

\* C16: generate-behavioral-answer given a question that is blank issues no
\* request and fails with EmptyInput; stated for the blank transcripts the runs
\* obtain.
C16_BlankQuestionRejected ==
  \A i \in Runs :
    (runs[i].transcribed /\ ~HasSpeech(runs[i].text)) =>
      /\ runs[i].genProvider = "none"
      /\ GenerateStart(apiKey, runs[i].text) = "EmptyInput"

\* C17: each handler uses the OpenRouter protocol exactly when the key it reads
\* starts with sk-or-, and the OpenAI protocol otherwise.
C17_ProviderByKeyShape ==
  [][\A i \in Runs :
       /\ (runs[i].provider = "none" /\ runs'[i].provider # "none") =>
             /\ runs'[i].provider \in {"A", "B"}
             /\ runs'[i].provider = "A" <=> startsWith(apiKey, KeyPrefixA)
       /\ (runs[i].genProvider = "none" /\ runs'[i].genProvider # "none") =>
             /\ runs'[i].genProvider \in {"A", "B"}
             /\ runs'[i].genProvider = "A" <=> startsWith(apiKey, KeyPrefixA)]_vars

\* C17 witness: a run transcribed with one protocol and answered with the other,
\* the key having changed in between.
C17_Witness ==
  \E i \in Runs : runs[i].provider = "A" /\ runs[i].genProvider = "B"

\* C18: a run invokes the transcoding, the transcription request and the
\* generation request at most once each, and nothing after it has ended.
C18_NoRetries ==
  [][\A i \in Runs :
       /\ Enters(i, "ffmpeg") => runs[i].provider = "none"
       /\ Enters(i, "transcription") => runs[i].sent.format = ""
       /\ Enters(i, "completion") => runs[i].genProvider = "none"
       /\ runs[i].pc = "done" => runs'[i] = runs[i]]_vars

\* C18 witness: a run that transcoded, transcribed and failed in generation.
C18_Witness ==
  \E i \in Runs :
    /\ comp # "AudioRecorder" /\ runs[i].provider = "A"
    /\ runs[i].sent.encoding = "wav" /\ runs[i].failed = "generation"

\* C19: in a run the transcription request is issued after the transcoding,
\* when there is one, has ended, and the generation request after the
\* transcription request has returned.
C19_StagesSequential ==
  /\ [](\A i \in Runs :
          /\ runs[i].genProvider # "none" => runs[i].transcribed
          /\ runs[i].pc = "transcription" => ~runs[i].transcribed
          /\ runs[i].pc = "ffmpeg" => runs[i].sent.format = "")
  /\ [][\A i \in Runs :
          /\ Enters(i, "completion") =>
                runs[i].pc = "transcription" /\ runs'[i].transcribed
          /\ Enters(i, "transcription") =>
                \/ runs[i].pc = "ffmpeg"
                \/ /\ runs[i].pc = "arrayBuffer"
                   /\ ~(runs'[i].provider = "A" /\ EncodingOf(runs[i].blob) = "webm")]_vars

\* C19 witness: a run that went through transcoding and transcription and has
\* its generation request outstanding.
C19_Witness ==
  \E i \in Runs :
    /\ comp # "AudioRecorder" /\ runs[i].provider = "A"
    /\ runs[i].pc = "completion"

\* getUserMedia of call c rejects in this step
StartRejected(c) ==
  calls[c].pc = "getUserMedia" /\ calls'[c].pc = "done" /\ calls'[c].stream = "none"

\* C20: when getUserMedia rejects, startRecording changes neither the recording
\* flag, the recorder nor the held Recording, and emits exactly one notice, the
\* error notice of the capture failure.
C20_StartFailureContained ==
  [][\A c \in Calls :
       StartRejected(c) =>
         /\ UNCHANGED <<isRecording, isProcessing, audioBlob, audioFormat,
                        mediaRecorderRef, audioChunksRef>>
         /\ calls'[c].recorder = "none"
         /\ calls'[c].notices = <<StartFailedNotice>>
         /\ StartFailedNotice.variant = "error"]_vars

\* C20 witness: a start that was rejected while the component was idle with no
\* recorder installed.
C20_Witness ==
  \E c \in Calls :
    /\ calls[c].pc = "done" /\ calls[c].stream = "none"
    /\ ~isRecording /\ mediaRecorderRef = 0

\* C21: once a run has completed, the Recording it processed is no longer held
\* and can no longer be processed.
C21_RecordingDestroyedAfterRun ==
  [][\A i \in Runs :
       (Ends(i) /\ runs'[i].outcome = "Completed") =>
         /\ audioBlob'.cap # runs[i].blob.cap
         /\ ~GenerateEnabled']_vars

\* The notice a run ended with
TerminalNotice(i) == runs[i].notices[Len(runs[i].notices)]

\* C22: the notice of a failed run tells the failure kind: runs that failed in
\* different stages ended with different notices.
C22_NoticePerFailureKind ==
  \A i, j \in Runs :
    (runs[i].failed \in {"transcode", "transcription", "generation"}
       /\ runs[j].failed \in {"transcode", "transcription", "generation"}
       /\ runs[i].failed # runs[j].failed) =>
      TerminalNotice(i) # TerminalNotice(j)

PipelineStep ==
  <<captureVars, isProcessing, runs, displayVars, files>>'
    # <<captureVars, isProcessing, runs, displayVars, files>>

\* C25: no step of startRecording, stopRecording, processAudio, transcribe-audio
\* or generate-behavioral-answer changes the configured API key.
C25_PipelineKeepsCredential ==
  [][PipelineStep => apiKey' = apiKey]_vars

\* C25 witness: a capture was started and stopped and a run went through both
\* handlers and failed in the second, with no configuration update in between.
C25_Witness ==
  /\ configUpdates = 0
  /\ stopNotices # <<>>
  /\ \E i \in Runs : runs[i].failed = "generation"

\* Capture c begins in this step
Begins(c) == calls[c].pc = "getUserMedia" /\ calls'[c].recorder = "recording"

\* How many times notice n occurs in the sequence
Occurrences(seq, n) == Cardinality({k \in 1..Len(seq) : seq[k] = n})

\* How many notices are shown in this step on behalf of run i: by processAudio
\* itself and by the completion callback it calls
NoticesAtEnd(i) ==
  (Len(runs'[i].notices) - Len(runs[i].notices))
    + (Len(shown'.notices) - Len(shown.notices))

\* The terminal notice processAudio owes to a run that ended this way
TerminalNoticeFor(r) ==
  IF r.failed # "none" THEN ProcessFailedNotice
  ELSE IF r.genProvider # "none" THEN SuccessNotice
  ELSE NoSpeechNotice

\* A capture that begins shows one recording-started notice, and a stop that
\* ends the recording state one recording-stopped notice.
StartAndStopNotices ==
  /\ \A c \in Calls :
        Begins(c) =>
          /\ Occurrences(calls'[c].notices, StartedNotice) = 1
          /\ calls'[c].notices[Len(calls'[c].notices)] = StartedNotice
  /\ (isRecording /\ ~isRecording') => stopNotices' = Append(stopNotices, StoppedNotice)

\* C26 as stated: one started notice per capture begun, one stopped notice per
\* stop, and per run the processing notice followed by exactly one terminal
\* notice.
C26_OneTerminalNotice ==
  [][/\ StartAndStopNotices
     /\ \A i \in Runs :
           Ends(i) => runs[i].notices = <<ProcessingNotice>> /\ NoticesAtEnd(i) = 1]_vars

\* C26 amended: processAudio itself shows the processing notice and then exactly
\* one terminal notice, the one of the run's outcome; when the run succeeded the
\* completion callback has shown one more success notice just before it, and
\* otherwise nothing else is shown.
C26_OneTerminalNoticeOfProcessAudio ==
  [][/\ StartAndStopNotices
     /\ \A i \in Runs :
           Ends(i) =>
             /\ runs'[i].notices = <<ProcessingNotice, TerminalNoticeFor(runs'[i])>>
             /\ shown'.notices =
                  shown.notices
                    \o (IF runs'[i].outcome = "Completed" /\ runs'[i].genProvider # "none"
                        THEN <<AnsweredNotice>> ELSE <<>>)]_vars

\* C26 witness: a capture was begun and stopped, one run has succeeded and
\* another has failed.
C26_Witness ==
  /\ stopNotices # <<>>
  /\ \E i, j \in Runs :
       /\ runs[i].pc = "done" /\ TerminalNotice(i) = SuccessNotice
       /\ runs[j].pc = "done" /\ TerminalNotice(j) = ProcessFailedNotice

\* The stop event of capture c is handled in this step
Stops(c) == calls[c].recorder = "stopping" /\ calls'[c].recorder = "stopped"

\* C27: the Recording built when a capture stops consists of exactly the
\* non-empty chunks that capture delivered, in the order they arrived.
C27_RecordingIsOwnChunksInOrder ==
  [][\A c \in Calls : Stops(c) => audioBlob'.data = calls[c].delivered]_vars

\* C28: when a run ends failed the Recording is still held and the session is
\* not Processing, so that, unless a capture is going on, the generate control
\* and the start control are enabled again; a generate request then starts a
\* new run on the Recording.
C28_RetryPossibleAfterFailure ==
  [][\A i \in Runs :
       (Ends(i) /\ runs'[i].outcome = "Failed") =>
         /\ audioBlob' = audioBlob /\ audioBlob'.cap # 0
         /\ ~isProcessing'
         /\ ~isRecording' => (GenerateEnabled' /\ StartEnabled')]_vars

\* C28 witness: after the first run has failed, a second generate request was
\* accepted and its run is processing the Recording that is held.
C28_Witness ==
  /\ Len(runs) = 2
  /\ runs[1].pc = "done" /\ runs[1].outcome = "Failed"
  /\ runs[2].pc # "done" /\ ~runs[2].busy /\ runs[2].blob = audioBlob

\* C29: the recording flag and the processing flag are never both true.
C29_NotRecordingWhileProcessing == ~(isRecording /\ isProcessing)

\* C30: the processing flag is true exactly while a run is in flight.
C30_ProcessingIffRunInFlight == isProcessing <=> InFlight # {}

\* The captures whose microphone stream is live
LiveStreams == {c \in Calls : calls[c].stream = "live"}

\* C31: at most one microphone stream of the component is live at any time, and
\* the stop event of a capture leaves no stream live.
C31_OneLiveStream ==
  /\ [](Cardinality(LiveStreams) <= 1)
  /\ [][\A c \in Calls : Stops(c) => LiveStreams' = {}]_vars

\* The temporary files the handler call of run i is using
PathsOf(i) ==
  {runs[i].inputPath, runs[i].outputPath, runs[i].tempFilePath} \ {NoPath}

\* C32: two handler calls in flight together never use the same temporary file.
C32_TempFilesScopedToCall ==
  \A i, j \in Runs : i # j => PathsOf(i) \cap PathsOf(j) = {}

\* C33: once a run that obtained a transcript has ended, the component that
\* displays results holds that transcript and, if it holds an answer at all,
\* the answer of the same run.
C33_DisplayedPairFromOneRun ==
  [][\A i \in Runs :
       (Ends(i) /\ runs'[i].transcribed /\ comp # "QueueCommands") =>
         /\ transcription' = runs'[i].text
         /\ Truthy(answer') => answer' = runs'[i].answer]_vars

\* C34: the generation stage of a run uses the provider its transcription
\* stage used.
C34_OneProviderPerRun ==
  \A i \in Runs :
    runs[i].genProvider # "none" => runs[i].genProvider = runs[i].provider

\* The encoding the Recording of run i was captured with
CapturedEncoding(i) == ExtensionOf(calls[runs[i].blob.cap].mimeType)

\* C35: the filename a run passes to transcribeAudio carries the extension of
\* the encoding its Recording was captured with, and the format tag of the audio
\* sent with an OpenRouter key is the encoding of the bytes sent: wav for bytes
\* captured as wav or transcoded, mp3 for bytes captured as mp3.
C35_FormatTagIsEncodingSent ==
  /\ [](\A i \in Runs :
          /\ runs[i].pc # "done" => runs[i].filename = RecordingName(CapturedEncoding(i))
          /\ (runs[i].provider = "A" /\ runs[i].sent.format # "") =>
                runs[i].sent.format = runs[i].sent.encoding)
  /\ [][\A i \in Runs :
          (Enters(i, "transcription") /\ runs'[i].provider = "A") =>
            runs'[i].sent.encoding =
              IF CarriedBytes(runs'[i].audio).transcoded THEN "wav"
              ELSE CapturedEncoding(i)]_vars

\* C35 witness: a Recording captured as mp3 is sent tagged mp3, with the name
\* recording.mp3.
C35_Witness ==
  \E i \in Runs :
    /\ runs[i].pc = "transcription" /\ runs[i].provider = "A"
    /\ runs[i].filename = RecordingName("mp3")
    /\ runs[i].sent = [encoding |-> "mp3", format |-> "mp3"]

\* C36: provided every awaited call returns or fails, every run ends and the
\* session leaves Processing; a convertWebMToWAV promise that is pending
\* settles, and once settled it is not pending again.
C36_EveryRunLeavesProcessing ==
  /\ \A i \in 1..MaxRuns :
        /\ (i <= Len(runs)) ~> (i <= Len(runs) /\ runs[i].pc = "done")
        /\ (i <= Len(runs) /\ runs[i].pc = "ffmpeg")
              ~> (i <= Len(runs) /\ runs[i].pc # "ffmpeg")
  /\ isProcessing ~> ~isProcessing
  /\ [][\A i \in Runs :
          /\ Ends(i) => ~isProcessing'
          /\ runs[i].pc \notin {"arrayBuffer", "ffmpeg"} => runs'[i].pc # "ffmpeg"]_vars

\* C36 witness: a run whose Recording was transcoded has ended and the session
\* is not Processing.
C36_Witness ==
  /\ ~isProcessing
  /\ \E i \in Runs :
       /\ runs[i].pc = "done" /\ runs[i].provider = "A"
       /\ runs[i].sent = [encoding |-> "wav", format |-> "wav"]
       /\ comp = "Header"

====
